---- MODULE Spec2Model ----
(***************************************************************************)
(* A model of gempost's template module (src/template.rs): breadcrumb      *)
(* derivation, the four renderers and the two path-template renderers.     *)
(*                                                                         *)
(* Strings are sequences of tokens.  A file name is the sequence of its    *)
(* dot-separated parts: "a.tar.gz" is <<"a","tar","gz">>, ".a" is          *)
(* <<"","a">>, "a." is <<"a","">>, "." is <<"","">>, ".." is <<"","","">>. *)
(* A path is a sequence of components; an absolute path starts with the    *)
(* RootDir component, the empty path is <<>>.  Every other string (a       *)
(* template name, a message, rendered text) is written token by token,     *)
(* the empty string being <<>>.                                            *)
(***************************************************************************)
EXTENDS Integers, Sequences, FiniteSets, TLC

VARIABLES
    dirs,      \* the directories that exist (canonical paths)
    files,     \* the files that exist: canonical path -> content
    call,      \* the operation that ran last, with its arguments
    result,    \* what that operation returned
    tera,      \* the template engine instance of that operation when it returned
    context,   \* the render context of that operation when it returned
    log,       \* the steps that operation took, in order
    cause,     \* the engine error behind a failed operation: its chain of messages
    ncalls     \* how many render calls have run

vars == <<dirs, files, call, result, tera, context, log, cause, ncalls>>

\* ------------------------------------------------------------------ bounds

MaxParts == 3       \* dot-separated parts of a generated file name
MaxDepth == 2       \* named segments of a generated path below its base
MaxTemplates == 2   \* template files handed to one render_page call
MaxCalls == 2       \* render calls in one run

\* ----------------------------------------------------------------- strings

None == <<>>
Some(x) == <<x>>
Unwrap(o) == o[1]

Range(s) == {s[i] : i \in 1..Len(s)}

RECURSIVE Join(_, _)
\* [String]::join(sep)
Join(strs, sep) ==
    IF strs = <<>> THEN <<>>
    ELSE IF Len(strs) = 1 THEN strs[1]
    ELSE strs[1] \o sep \o Join(Tail(strs), sep)

\* A part that is not valid UTF-8, and what to_string_lossy makes of it.
InvalidUtf8 == "\\xFF"
Replacement == "U+FFFD"

\* OsStr::to_str
ToStr(name) == IF InvalidUtf8 \in Range(name) THEN None ELSE Some(name)

\* OsStr::to_string_lossy
ToStringLossy(name) ==
    [i \in 1..Len(name) |-> IF name[i] = InvalidUtf8 THEN Replacement ELSE name[i]]

\* ------------------------------------------------------------------- paths

RootDir == <<"/">>
CurDir == <<"", "">>
ParentDir == <<"", "", "">>

IsNormal(c) == c # RootDir /\ c # CurDir /\ c # ParentDir /\ c # <<"">>

\* Path::components: "." disappears except at the very start of the path.
Components(path) ==
    IF path = <<>> THEN <<>>
    ELSE <<path[1]>> \o SelectSeq(Tail(path), LAMBDA c : c # CurDir)

\* Path::parent
Parent(path) ==
    IF path = <<>> \/ path = <<RootDir>> THEN None
    ELSE Some(SubSeq(path, 1, Len(path) - 1))

\* The path and every ancestor of it.
Prefixes(path) == {SubSeq(path, 1, k) : k \in 1..Len(path)}

\* Path::file_name
FileName(path) ==
    IF path = <<>> THEN None
    ELSE LET last == path[Len(path)]
         IN IF IsNormal(last) THEN Some(last) ELSE None

\* A file_stem that cuts at the first dot instead of the last.
FileStemFirstDot(path) ==
    LET name == FileName(path) IN
    IF name = None THEN None
    ELSE LET n == Unwrap(name)
         IN IF n[1] = "" THEN Some(n) ELSE Some(<<n[1]>>)

\* Path::file_stem (rsplit_file_at_dot, then before.or(after)): the part of
\* the name before its last dot; the whole name when it has no dot or only a
\* leading one.
FileStem(path) ==
    LET name == FileName(path) IN
    IF name = None THEN None
    ELSE LET n == Unwrap(name)
         IN IF Len(n) = 1 THEN Some(n)
            ELSE IF Len(n) = 2 /\ n[1] = "" THEN Some(n)
            ELSE Some(SubSeq(n, 1, Len(n) - 1))

RECURSIVE Walk(_, _, _)
\* fs::canonicalize, one component at a time: every directory on the way
\* must exist.
Walk(stack, rest, ds) ==
    IF rest = <<>> THEN Some(stack)
    ELSE IF stack \notin ds THEN None
    ELSE LET c == Head(rest) IN
         IF c = CurDir THEN Walk(stack, Tail(rest), ds)
         ELSE IF c = ParentDir
              THEN Walk(IF Len(stack) > 1 THEN SubSeq(stack, 1, Len(stack) - 1) ELSE stack,
                        Tail(rest), ds)
         ELSE Walk(Append(stack, c), Tail(rest), ds)

\* Path::canonicalize().ok(): the absolute path with "." and ".." resolved,
\* None when the path does not exist.
Canonicalize(path, ds, fs) ==
    IF path = <<>> \/ path[1] # RootDir THEN None
    ELSE LET w == Walk(<<RootDir>>, Tail(path), ds)
         IN IF w # None /\ (Unwrap(w) \in ds \/ Unwrap(w) \in DOMAIN fs) THEN w ELSE None

\* Option::unwrap_or_default for a PathBuf
UnwrapOrDefault(o) == IF o = None THEN <<>> ELSE Unwrap(o)

Skip(s, n) == IF n >= Len(s) THEN <<>> ELSE SubSeq(s, n + 1, Len(s))

\* The stem replaces the last element of the breadcrumb.
StripLast(breadcrumb) ==
    IF breadcrumb = <<>> THEN breadcrumb
    ELSE LET stem == FileStem(<<breadcrumb[Len(breadcrumb)]>>)
         IN IF stem = None THEN breadcrumb
            ELSE [breadcrumb EXCEPT ![Len(breadcrumb)] = ToStringLossy(Unwrap(stem))]

create_breadcrumb(file_path, base_path, ds, fs) ==
    LET base == UnwrapOrDefault(Canonicalize(base_path, ds, fs))
        num_base_components == Len(Components(base))
        binding == UnwrapOrDefault(Canonicalize(file_path, ds, fs))
        capsule_components == Skip(Components(binding), num_base_components)
        normal == SelectSeq(capsule_components, IsNormal)
        breadcrumb == [i \in 1..Len(normal) |-> ToStringLossy(normal[i])]
    IN StripLast(breadcrumb)

\* A String of the breadcrumb, written out with its dots.
Dotted(name) == Join([i \in 1..Len(name) |-> <<name[i]>>], <<".">>)

\* From<PagePathParams> for PagePathTemplateData
PagePathFrom(file_path, base_path, slug, ds, fs) ==
    LET breadcrumb == create_breadcrumb(file_path, base_path, ds, fs)
        popped == IF breadcrumb = <<>> THEN breadcrumb
                  ELSE SubSeq(breadcrumb, 1, Len(breadcrumb) - 1)
    IN [parent_url |-> Join([i \in 1..Len(popped) |-> Dotted(popped[i])], <<"/">>),
        slug |-> slug]

\* ------------------------------------------------ results and the start state

Ok(value) == [ok |-> TRUE, kind |-> "", path |-> <<>>, template |-> <<>>,
              reason |-> <<>>, value |-> value]
Err(kind, path, template, reason) ==
    [ok |-> FALSE, kind |-> kind, path |-> path, template |-> template,
     reason |-> reason, value |-> <<>>]

NoCall == [op |-> "none"]
EmptyEngine == <<>>
EmptyContext == <<>>

\* ----------------------------------------------------- the template engine
\*
\* A template source is [id, parses, uses]: its text (one token), whether it
\* parses, and the context keys it interpolates, in order.  A template name is
\* a string of tokens ("page.tar" is <<"page", ".", "tar">>).  An engine error
\* is the chain of its messages, outermost first.

Quoted(name) == <<"'">> \o name \o <<"'">>

\* An engine kept from the call before.
TeraShared == tera

\* Tera::default()
TeraDefault == <<>>

\* Context::new()
ContextNew == <<>>

\* Context::insert
Insert(ctx, key, value) == (key :> value) @@ ctx

\* Tera::add_raw_template: Failed to parse, chained on the parser's error.
AddRawTemplate(engine, name, source) ==
    IF source.parses
    THEN [ok |-> TRUE, engine |-> (name :> source) @@ engine, err |-> <<>>]
    ELSE [ok |-> FALSE, engine |-> engine,
          err |-> << <<"Failed to parse ">> \o Quoted(name),
                     <<"syntax error in ", source.id>> >>]

RECURSIVE Emit(_, _)
\* The text of the interpolations of keys, up to the first key the context
\* does not define.
Emit(keys, ctx) ==
    IF keys = <<>> \/ Head(keys) \notin DOMAIN ctx THEN <<>>
    ELSE <<Head(keys), "=">> \o ctx[Head(keys)] \o <<";">> \o Emit(Tail(keys), ctx)

\* Tera::render / Tera::render_to: [ok, out, err].  out is what reached the
\* writer: the whole text, or on an error what was written before it.
Render(engine, name, ctx) ==
    IF name \notin DOMAIN engine
    THEN [ok |-> FALSE, out |-> <<>>,
          err |-> << <<"Template ">> \o Quoted(name) \o <<" not found">> >>]
    ELSE LET t == engine[name]
             missing == {i \in 1..Len(t.uses) : t.uses[i] \notin DOMAIN ctx}
         IN IF missing = {}
            THEN [ok |-> TRUE, out |-> <<"<", t.id>> \o Emit(t.uses, ctx) \o <<">">>,
                  err |-> <<>>]
            ELSE LET i == CHOOSE j \in missing : \A k \in missing : j <= k
                 IN [ok |-> FALSE, out |-> <<"<", t.id>> \o Emit(t.uses, ctx),
                     err |-> << <<"Failed to render ">> \o Quoted(name),
                                <<"Variable ", t.uses[i], " not found in context">> >>]

\* Display for tera::Error: the outermost message only.
ErrToString(err) == err[1]

\* Tera::add_file: a template file is [path, source], source None when the
\* file cannot be read.  Without a name the path itself names the template.
AddFile(engine, file, name) ==
    LET tpl_name == IF name = None
                    THEN Join([i \in 1..Len(file.path) |-> Dotted(file.path[i])], <<"/">>)
                    ELSE Unwrap(name)
    IN IF file.source = None
       THEN [ok |-> FALSE, engine |-> engine,
             err |-> << <<"Couldn't open template ">> \o Quoted(tpl_name),
                        <<"No such file or directory">> >>]
       ELSE IF ~Unwrap(file.source).parses
       THEN [ok |-> FALSE, engine |-> engine,
             err |-> << <<"Failed to parse ">> \o Quoted(tpl_name),
                        <<"syntax error in ", Unwrap(file.source).id>> >>]
       ELSE [ok |-> TRUE, engine |-> (tpl_name :> Unwrap(file.source)) @@ engine,
             err |-> <<>>]

RECURSIVE AddTemplateFiles(_, _, _)
\* Tera::add_template_files: the files in order, stopping at the first that
\* fails; the ones before it stay registered.
AddTemplateFiles(engine, filesToAdd, names) ==
    IF filesToAdd = <<>> THEN [ok |-> TRUE, engine |-> engine, err |-> <<>>]
    ELSE LET one == AddFile(engine, Head(filesToAdd), Head(names))
         IN IF one.ok THEN AddTemplateFiles(one.engine, Tail(filesToAdd), Tail(names))
            ELSE one

\* ------------------------------------------------------------ the filesystem

\* fs::create_dir_all: every missing directory down to path; an error when a
\* file is in the way.
CreateDirAll(path, ds, fs) ==
    IF \E q \in Prefixes(path) : q \in DOMAIN fs
    THEN [ok |-> FALSE, dirs |-> ds]
    ELSE [ok |-> TRUE, dirs |-> ds \cup Prefixes(path)]

\* File::create: creates the file or truncates it; an error when its
\* directory does not exist or the path is a directory.
FileCreate(path, ds, fs) ==
    IF Parent(path) = None \/ Unwrap(Parent(path)) \notin ds \/ path \in ds
    THEN [ok |-> FALSE, files |-> fs]
    ELSE [ok |-> TRUE, files |-> (path :> <<>>) @@ fs]

\* What the writer holds once the engine has written out.
Written(path, out, fs) == (path :> out) @@ fs

\* ------------------------------------------------------------- the renderers

Outcome(res, ds, fs, engine, ctx, steps) ==
    [result |-> res, dirs |-> ds, files |-> fs, tera |-> engine,
     context |-> ctx, log |-> steps, cause |-> <<>>]

\* The outcome of a failure that an engine error caused.
Caused(o, err) == [o EXCEPT !.cause = err]

\* What the templates see of an entry and of a feed.
EntryValue(entry) == <<entry.url, entry.title>>
FeedValue(feed) == <<feed.title>>
BreadcrumbValue(breadcrumb) ==
    Join([i \in 1..Len(breadcrumb) |-> Dotted(breadcrumb[i])], <<"/">>)

\* create_named_template: the name a template file is registered under.
create_named_template(path) ==
    LET stem == FileStem(path)
    IN IF stem = None \/ ToStr(Unwrap(stem)) = None THEN None
       ELSE Some(Dotted(Unwrap(ToStr(Unwrap(stem)))))

PageName == <<"page">>

\* A check that looks at the first file only.
HasPageTemplateFirst(names) ==
    names # <<>> /\ (IF names[1] = None THEN <<>> ELSE Unwrap(names[1])) = PageName

\* templates.iter().find(|(_, name)| name.unwrap_or_default() == "page")
HasPageTemplate(names) ==
    \E i \in 1..Len(names) :
        (IF names[i] = None THEN <<>> ELSE Unwrap(names[i])) = PageName

ReservedReason == <<"page template directory must NOT contain a page.tera file">>

\* to_error: every message of the cause chain, joined by " - ".
to_error(output, url, err) ==
    Err("InvalidPageTemplate", output, <<>>, <<url, ": ">> \o Join(err, <<" - ">>))

\* self.layout.as_deref().unwrap_or("base")
LayoutTemplate(entry) == IF entry.layout = None THEN <<"base">> ELSE Unwrap(entry.layout)

\* A second pass whose content is the entry body, not its render.
SecondPassContextStale(ctx, entry, pre_rendered) == Insert(ctx, "content", <<entry.body.id>>)

\* context.insert("content", &pre_rendered)
SecondPassContext(ctx, entry, pre_rendered) == Insert(ctx, "content", pre_rendered)

\* EntryTemplateData::render_page
render_page(entry, pages_data, templates, output, ds, fs) ==
    LET names == [i \in 1..Len(templates) |-> create_named_template(templates[i].path)]
        loaded == AddTemplateFiles(TeraDefault, templates, names)
        added == AddRawTemplate(loaded.engine, PageName, entry.body)
        parent_dir == Parent(output)
        made == CreateDirAll(Unwrap(parent_dir), ds, fs)
        dest_file == FileCreate(output, made.dirs, fs)
        breadcrumb == create_breadcrumb(output, pages_data.pages_dir, made.dirs, dest_file.files)
        ctx == Insert(Insert(Insert(Insert(ContextNew,
                   "entry", EntryValue(entry)), "values", entry.values),
                   "breadcrumb", BreadcrumbValue(breadcrumb)),
                   "feed", FeedValue(pages_data.feed_data))
        first == Render(added.engine, PageName, ctx)
        ctx2 == SecondPassContext(ctx, entry, first.out)
        second == Render(added.engine, LayoutTemplate(entry), ctx2)
        s1 == <<"add_template_files">>
        s2 == s1 \o <<"add_raw_template">>
        s3 == s2 \o <<"create_dir_all">>
        s4 == s3 \o <<"File::create">>
        s5 == s4 \o <<"create_breadcrumb", "render">>
        s6 == s5 \o <<"render_to">>
    IN
    IF HasPageTemplate(names)
    THEN Outcome(Err("InvalidPageTemplate", output, <<>>, ReservedReason),
                 ds, fs, TeraDefault, EmptyContext, <<>>)
    ELSE IF ~loaded.ok
    THEN Caused(Outcome(Err("InvalidPageTemplate", output, <<>>, ErrToString(loaded.err)),
                 ds, fs, loaded.engine, EmptyContext, s1), loaded.err)
    ELSE IF ~added.ok
    THEN Caused(Outcome(Err("InvalidPageTemplate", output, <<>>,
                     <<entry.url, ": ">> \o ErrToString(added.err)),
                 ds, fs, added.engine, EmptyContext, s2), added.err)
    ELSE IF parent_dir = None
    THEN Outcome(Err("eyre", <<>>, <<>>,
                     <<"Could not get parent directory of templated page file. This is a bug.">>),
                 ds, fs, added.engine, EmptyContext, s2)
    ELSE IF ~made.ok
    THEN Outcome(Err("eyre", <<>>, <<>>, <<"failed creating parent directory">>),
                 made.dirs, fs, added.engine, EmptyContext, s3)
    ELSE IF ~dest_file.ok
    THEN Outcome(Err("eyre", <<>>, <<>>, <<"failed creating gemlog templated page file">>),
                 made.dirs, fs, added.engine, EmptyContext, s4)
    ELSE IF ~first.ok
    THEN Caused(Outcome(to_error(output, entry.url, first.err),
                 made.dirs, dest_file.files, added.engine, ctx, s5), first.err)
    ELSE IF ~second.ok
    THEN Caused(Outcome(to_error(output, entry.url, second.err),
                 made.dirs, Written(output, second.out, dest_file.files),
                 added.engine, ctx2, s6), second.err)
    ELSE Outcome(Ok(<<>>), made.dirs, Written(output, second.out, dest_file.files),
                 added.engine, ctx2, s6)

PostName == <<"post">>

\* EntryTemplateData::render_post
render_post(entry, feed, template, output, ds, fs) ==
    LET added == AddFile(TeraDefault, template, Some(PostName))
        ctx == Insert(Insert(ContextNew, "entry", EntryValue(entry)),
                      "feed", FeedValue(feed))
        dest_file == FileCreate(output, ds, fs)
        r == Render(added.engine, PostName, ctx)
    IN
    IF ~added.ok
    THEN Caused(Outcome(Err("InvalidPostPageTemplate", output, <<>>, ErrToString(added.err)),
                 ds, fs, added.engine, EmptyContext, <<"add_template_file">>), added.err)
    ELSE IF ~dest_file.ok
    THEN Outcome(Err("eyre", <<>>, <<>>, <<"failed creating gemlog post page file">>),
                 ds, fs, added.engine, ctx, <<"add_template_file", "File::create">>)
    ELSE IF ~r.ok
    THEN Caused(Outcome(Err("InvalidPostPageTemplate", output, <<>>, ErrToString(r.err)),
                 ds, Written(output, r.out, dest_file.files), added.engine, ctx,
                 <<"add_template_file", "File::create", "render_to">>), r.err)
    ELSE Outcome(Ok(<<>>), ds, Written(output, r.out, dest_file.files),
                 added.engine, ctx,
                 <<"add_template_file", "File::create", "render_to">>)

IndexName == <<"index">>

\* FeedTemplateData::render_index
render_index(feed, template, output, ds, fs) ==
    LET added == AddFile(TeraDefault, template, Some(IndexName))
        ctx == Insert(ContextNew, "feed", FeedValue(feed))
        parent_dir == Parent(output)
        made == CreateDirAll(Unwrap(parent_dir), ds, fs)
        dest_file == FileCreate(output, made.dirs, fs)
        r == Render(added.engine, IndexName, ctx)
        s1 == <<"add_template_file">>
        s2 == s1 \o <<"create_dir_all">>
        s3 == s2 \o <<"File::create">>
        s4 == s3 \o <<"render_to">>
    IN
    IF ~added.ok
    THEN Caused(Outcome(Err("InvalidIndexPageTemplate", <<>>, <<>>, ErrToString(added.err)),
                 ds, fs, added.engine, EmptyContext, s1), added.err)
    ELSE IF parent_dir = None
    THEN Outcome(Err("eyre", <<>>, <<>>,
                     <<"Could not get parent directory of index page file. This is a bug.">>),
                 ds, fs, added.engine, ctx, s1)
    ELSE IF ~made.ok
    THEN Outcome(Err("eyre", <<>>, <<>>, <<"failed creating parent directory">>),
                 made.dirs, fs, added.engine, ctx, s2)
    ELSE IF ~dest_file.ok
    THEN Outcome(Err("eyre", <<>>, <<>>, <<"failed creating gemlog index page file">>),
                 made.dirs, fs, added.engine, ctx, s3)
    ELSE IF ~r.ok
    THEN Caused(Outcome(Err("InvalidIndexPageTemplate", <<>>, <<>>, ErrToString(r.err)),
                 made.dirs, Written(output, r.out, dest_file.files), added.engine, ctx, s4), r.err)
    ELSE Outcome(Ok(<<>>), made.dirs, Written(output, r.out, dest_file.files),
                 added.engine, ctx, s4)

FeedName == <<"feed">>

\* FeedTemplateData::render_feed
render_feed(feed, template, output, ds, fs) ==
    LET added == AddRawTemplate(TeraDefault, FeedName, template)
        ctx == Insert(ContextNew, "feed", FeedValue(feed))
        parent_dir == Parent(output)
        made == CreateDirAll(Unwrap(parent_dir), ds, fs)
        dest_file == FileCreate(output, made.dirs, fs)
        r == Render(added.engine, FeedName, ctx)
        s1 == <<"add_raw_template">>
        s2 == s1 \o <<"create_dir_all">>
        s3 == s2 \o <<"File::create">>
        s4 == s3 \o <<"render_to">>
    IN
    IF ~added.ok
    THEN Caused(Outcome(Err("eyre", <<>>, <<>>,
                     Join(<< <<"The bundled Atom feed template is invalid. This is a bug.">> >>
                          \o added.err, <<": ">>)),
                 ds, fs, added.engine, EmptyContext, s1), added.err)
    ELSE IF parent_dir = None
    THEN Outcome(Err("eyre", <<>>, <<>>,
                     <<"Could not get parent directory of Atom feed file. This is a bug.">>),
                 ds, fs, added.engine, ctx, s1)
    ELSE IF ~made.ok
    THEN Outcome(Err("eyre", <<>>, <<>>, <<"failed creating parent directory">>),
                 made.dirs, fs, added.engine, ctx, s2)
    ELSE IF ~dest_file.ok
    THEN Outcome(Err("eyre", <<>>, <<>>, <<"failed creating gemlog Atom feed file">>),
                 made.dirs, fs, added.engine, ctx, s3)
    ELSE IF ~r.ok
    THEN Caused(Outcome(Err("eyre", <<>>, <<>>,
                     Join(<< <<"failed generating the Atom feed">> >> \o r.err, <<": ">>)),
                 made.dirs, Written(output, r.out, dest_file.files), added.engine, ctx, s4), r.err)
    ELSE Outcome(Ok(<<>>), made.dirs, Written(output, r.out, dest_file.files),
                 added.engine, ctx, s4)

\* ---------------------------------------------------------- path templates

Digit(d) == <<"0", "1", "2", "3", "4", "5", "6", "7", "8", "9">>[d + 1]

RECURSIVE Digits(_)
Digits(n) == IF n < 10 THEN <<Digit(n)>> ELSE Append(Digits(n \div 10), Digit(n % 10))

\* Display for an integer
Display(n) == IF n < 0 THEN <<"-">> \o Digits(-n) ELSE Digits(n)

\* A format that does not pad.
NoPad(s, w) == s

RECURSIVE PadLeft(_, _)
\* format!("{:0>w}", s): zeros on the left up to the width w, never a cut.
PadLeft(s, w) == IF Len(s) >= w THEN s ELSE PadLeft(<<"0">> \o s, w)

YearWidth == 4
MonthWidth == 2
DayWidth == 2

\* From<PostPathParams> for PostPathTemplateData.  published is None or
\* Some([year, month, day]).
PostPathFrom(params) ==
    [year |-> IF params.published = None THEN <<>>
              ELSE PadLeft(Display(Unwrap(params.published).year), YearWidth),
     month |-> IF params.published = None THEN <<>>
               ELSE PadLeft(Display(Unwrap(params.published).month), MonthWidth),
     day |-> IF params.published = None THEN <<>>
             ELSE PadLeft(Display(Unwrap(params.published).day), DayWidth),
     slug |-> params.slug]

PathName == <<"path">>

\* The error kind PagePathTemplateData::render reports.
PagePathErrorKind == "InvalidPostPath"

PathOutcome(res, engine, ctx, err) ==
    [result |-> res, tera |-> engine, context |-> ctx, cause |-> err]

\* PostPathTemplateData::render
PostPathRender(data, template) ==
    LET added == AddRawTemplate(TeraDefault, PathName, template)
        ctx == Insert(Insert(Insert(Insert(ContextNew,
                   "year", data.year), "month", data.month),
                   "day", data.day), "slug", data.slug)
        r == Render(added.engine, PathName, ctx)
    IN
    IF ~added.ok
    THEN PathOutcome(Err("InvalidPostPath", <<>>, template.id, ErrToString(added.err)),
                     added.engine, EmptyContext, added.err)
    ELSE IF ~r.ok
    THEN PathOutcome(Err("InvalidPostPath", <<>>, template.id, ErrToString(r.err)),
                     added.engine, ctx, r.err)
    ELSE PathOutcome(Ok(r.out), added.engine, ctx, <<>>)

\* PagePathTemplateData::render
PagePathRender(data, template) ==
    LET added == AddRawTemplate(TeraDefault, PathName, template)
        ctx == Insert(Insert(ContextNew,
                   "breadcrumb", data.parent_url), "slug", data.slug)
        r == Render(added.engine, PathName, ctx)
    IN
    IF ~added.ok
    THEN PathOutcome(Err(PagePathErrorKind, <<>>, template.id, ErrToString(added.err)),
                     added.engine, EmptyContext, added.err)
    ELSE IF ~r.ok
    THEN PathOutcome(Err(PagePathErrorKind, <<>>, template.id, ErrToString(r.err)),
                     added.engine, ctx, r.err)
    ELSE PathOutcome(Ok(r.out), added.engine, ctx, <<>>)

\* A path render returns: it touches no file.
PathReturns(o) ==
    /\ result' = o.result
    /\ tera' = o.tera
    /\ context' = o.context
    /\ cause' = o.cause

\* ---------------------------------------------------- the render operations

T(id, uses) == [id |-> id, parses |-> TRUE, uses |-> uses]
Unparsable(id) == [id |-> id, parses |-> FALSE, uses |-> <<>>]

TemplateFile(name, source) ==
    [path |-> <<RootDir, <<"templates">>, name>>, source |-> source]

BaseTmpl == TemplateFile(<<"base", "tmpl">>, Some(T("base.tmpl", <<"content", "entry">>)))
ListTmpl == TemplateFile(<<"list", "tmpl">>, Some(T("list.tmpl", <<"breadcrumb", "content">>)))
ListBad == TemplateFile(<<"list", "bad">>, Some(T("list.bad", <<"content", "nope">>)))
BrokenTmpl == TemplateFile(<<"broken", "tmpl">>, Some(Unparsable("broken.tmpl")))
GoneTmpl == TemplateFile(<<"gone", "tmpl">>, None)
PageTera == TemplateFile(<<"page", "tera">>, Some(T("page.tera", <<"content">>)))
PageBare == TemplateFile(<<"page">>, Some(T("page", <<"content">>)))
PageTarGz == TemplateFile(<<"page", "tar", "gz">>, Some(T("page.tar.gz", <<"content">>)))
NoStem == [path |-> <<RootDir, <<"templates">>, ParentDir>>, source |-> None]

PostTmpl == TemplateFile(<<"post", "tmpl">>, Some(T("post.tmpl", <<"entry", "feed">>)))
PostBad == TemplateFile(<<"post", "bad">>, Some(T("post.bad", <<"entry", "nope">>)))
IndexTmpl == TemplateFile(<<"index", "tmpl">>, Some(T("index.tmpl", <<"feed">>)))
IndexBad == TemplateFile(<<"index", "bad">>, Some(T("index.bad", <<"feed", "nope">>)))

Entry(url, title, body, layout) ==
    [url |-> url, title |-> title, body |-> body, layout |-> layout,
     values |-> <<"values of ", url>>]

World == Entry("gemini://capsule/world", "World", T("Hi {{ entry.title }}", <<"entry">>), None)
Listed == Entry("gemini://capsule/listed", "Listed",
                T("{{ breadcrumb }} {{ values }}", <<"breadcrumb", "values">>),
                Some(<<"list">>))
Undefined == Entry("gemini://capsule/undefined", "Undefined",
                   T("{{ entry.title }} {{ content }}", <<"entry", "content">>), None)
Broken == Entry("gemini://capsule/broken", "Broken", Unparsable("{{ entry.title"), None)

PageEntries == {World, Listed, Undefined, Broken}
PostEntries == {World, Listed}

TheFeed == [title |-> "Capsule feed"]

Gone == <<"gone">>
PagesDir == <<RootDir, <<"pages">>>>
PostsDir == <<RootDir, <<"posts">>>>

PagesData == {[pages_dir |-> d, feed_data |-> TheFeed] : d \in {PagesDir, <<RootDir, Gone>>}}

\* The template directories render_page is handed: a good one, one without a
\* base layout whose list layout names an undefined variable, one whose second
\* file does not parse, and one with a page.tera.
TemplateDirs ==
    {<<BaseTmpl, ListTmpl>>, <<ListBad>>, <<BaseTmpl, BrokenTmpl>>, <<ListTmpl, PageTera>>}

PageOutputs == {PagesDir \o << <<"a", "gmi">> >>,
                PagesDir \o << <<"sub", "dir">>, <<"b", "x", "gmi">> >>}
PostOutputs == {PostsDir \o << <<"p", "gmi">> >>, PagesDir \o << <<"a", "gmi">> >>}
IndexOutputs == {PostsDir \o << <<"index", "gmi">> >>, <<RootDir>>}
FeedOutputs == {PostsDir \o << <<"atom", "xml">> >>, PostsDir \o << <<"p", "gmi">>, <<"atom", "xml">> >>}

PostTemplates == {PostTmpl, PostBad, BrokenTmpl, GoneTmpl}
IndexTemplates == {IndexTmpl, IndexBad, BrokenTmpl, GoneTmpl}
FeedTemplates == {T("atom", <<"feed">>), T("atom with entry", <<"feed", "entry">>),
                  Unparsable("atom {{")}

\* The capsule's pages directory exists; nothing has been rendered.
Init ==
    /\ dirs = Prefixes(PagesDir)
    /\ files = <<>>
    /\ call = NoCall
    /\ result = Ok(<<>>)
    /\ tera = EmptyEngine
    /\ context = EmptyContext
    /\ log = <<>>
    /\ cause = <<>>
    /\ ncalls = 0

\* A render call returns: its outcome becomes the state.
Returns(o) ==
    /\ result' = o.result
    /\ dirs' = o.dirs
    /\ files' = o.files
    /\ tera' = o.tera
    /\ context' = o.context
    /\ log' = o.log
    /\ cause' = o.cause
    /\ ncalls' = ncalls + 1

RenderPost ==
    \E entry \in PostEntries, template \in PostTemplates, output \in PostOutputs :
        /\ ncalls < MaxCalls
        /\ call' = [op |-> "render_post", entry |-> entry, template |-> template,
                    output |-> output]
        /\ Returns(render_post(entry, TheFeed, template, output, dirs, files))

RenderPage ==
    \E entry \in PageEntries, pages_data \in PagesData, templates \in TemplateDirs,
       output \in PageOutputs :
        /\ ncalls < MaxCalls
        /\ call' = [op |-> "render_page", entry |-> entry, pages_data |-> pages_data,
                    templates |-> templates, output |-> output]
        /\ Returns(render_page(entry, pages_data, templates, output, dirs, files))

RenderIndex ==
    \E template \in IndexTemplates, output \in IndexOutputs :
        /\ ncalls < MaxCalls
        /\ call' = [op |-> "render_index", feed |-> TheFeed, template |-> template,
                    output |-> output]
        /\ Returns(render_index(TheFeed, template, output, dirs, files))

RenderFeed ==
    \E template \in FeedTemplates, output \in FeedOutputs :
        /\ ncalls < MaxCalls
        /\ call' = [op |-> "render_feed", feed |-> TheFeed, template |-> template,
                    output |-> output]
        /\ Returns(render_feed(TheFeed, template, output, dirs, files))

\* The path templates the caller renders between the page renders.
RenderPostPath ==
    \E params \in {[slug |-> <<"hello">>, published |-> None],
                    [slug |-> <<"hello">>,
                     published |-> Some([year |-> 2024, month |-> 3, day |-> 7])]},
       template \in {T("{{year}}/{{month}}/{{slug}}", <<"year", "month", "slug">>),
                     T("{{breadcrumb}}/{{slug}}", <<"breadcrumb", "slug">>),
                     Unparsable("{{slug")} :
        /\ ncalls < MaxCalls
        /\ call' = [op |-> "post_path_render", params |-> params, template |-> template]
        /\ PathReturns(PostPathRender(PostPathFrom(params), template))
        /\ ncalls' = ncalls + 1
        /\ UNCHANGED <<dirs, files, log>>

RenderPagePath ==
    \E data \in {[parent_url |-> <<>>, slug |-> <<"hello">>],
                  [parent_url |-> <<"a", "/", "b">>, slug |-> <<"hello">>]},
       template \in {T("{{year}}/{{month}}/{{slug}}", <<"year", "month", "slug">>),
                     T("{{breadcrumb}}/{{slug}}", <<"breadcrumb", "slug">>),
                     Unparsable("{{slug")} :
        /\ ncalls < MaxCalls
        /\ call' = [op |-> "page_path_render", data |-> data, template |-> template]
        /\ PathReturns(PagePathRender(data, template))
        /\ ncalls' = ncalls + 1
        /\ UNCHANGED <<dirs, files, log>>

Next ==
    \/ RenderPost
    \/ RenderPage
    \/ RenderIndex
    \/ RenderFeed
    \/ RenderPostPath
    \/ RenderPagePath

Spec == Init /\ [][Next]_vars

\* ------------------------------------- render_page over template directories

TemplatePool ==
    {BaseTmpl, ListTmpl, PageTera, PageBare, PageTarGz, BrokenTmpl, GoneTmpl, NoStem}

RECURSIVE Lists(_, _)
\* The sequences over S of length 0..n.
Lists(S, n) ==
    IF n = 0 THEN {<<>>}
    ELSE LET shorter == Lists(S, n - 1)
         IN shorter \cup {Append(l, x) : l \in shorter, x \in S}

\* One render_page call on a directory of at most MaxTemplates files.
RenderPageOnce ==
    \E entry \in {World, Listed}, templates \in Lists(TemplatePool, MaxTemplates) :
        /\ call = NoCall
        /\ call' = [op |-> "render_page", entry |-> entry,
                    pages_data |-> [pages_dir |-> PagesDir, feed_data |-> TheFeed],
                    templates |-> templates, output |-> PagesDir \o << <<"a", "gmi">> >>]
        /\ Returns(render_page(entry, [pages_dir |-> PagesDir, feed_data |-> TheFeed],
                               templates, PagesDir \o << <<"a", "gmi">> >>, dirs, files))

SpecPage == Init /\ [][RenderPageOnce]_vars

\* ------------------------------------------- path templates, as pure functions

Years == {-5, 0, 7, 2024, 9999, 10000}
Months == {1, 9, 10, 12}
Days == {1, 9, 10, 31}
Slugs == {<<"hello">>, <<>>}

PostPathParamsSet ==
    {[slug |-> s, published |-> None] : s \in Slugs}
    \cup {[slug |-> s, published |-> Some([year |-> y, month |-> m, day |-> d])] :
            s \in Slugs, y \in Years, m \in Months, d \in Days}

PagePathDataSet ==
    {[parent_url |-> u, slug |-> s] : u \in {<<>>, <<"a">>, <<"a", "/", "b">>}, s \in Slugs}

\* "{{year}}/{{month}}/{{slug}}", "{{breadcrumb}}/{{slug}}", "{{slug}}", a
\* template that names a parameter no shape has, and one that does not parse.
PathTemplates ==
    {[id |-> "{{year}}/{{month}}/{{slug}}", parses |-> TRUE, uses |-> <<"year", "month", "slug">>],
     [id |-> "{{breadcrumb}}/{{slug}}", parses |-> TRUE, uses |-> <<"breadcrumb", "slug">>],
     [id |-> "{{slug}}", parses |-> TRUE, uses |-> <<"slug">>],
     [id |-> "{{slug}}/{{nope}}", parses |-> TRUE, uses |-> <<"slug", "nope">>],
     [id |-> "{{slug", parses |-> FALSE, uses |-> <<>>]}

InitPath ==
    /\ dirs = {<<RootDir>>}
    /\ files = <<>>
    /\ call = NoCall
    /\ result = Ok(<<>>)
    /\ tera = EmptyEngine
    /\ context = EmptyContext
    /\ log = <<>>
    /\ cause = <<>>
    /\ ncalls = 0

PostPathDataFrom ==
    \E params \in PostPathParamsSet :
        /\ call = NoCall
        /\ call' = [op |-> "post_path_from", params |-> params]
        /\ result' = Ok(PostPathFrom(params))
        /\ UNCHANGED <<dirs, files, tera, context, log, cause, ncalls>>

PostPathTemplateRender ==
    \E params \in PostPathParamsSet, template \in PathTemplates :
        /\ call = NoCall
        /\ call' = [op |-> "post_path_render", params |-> params, template |-> template]
        /\ PathReturns(PostPathRender(PostPathFrom(params), template))
        /\ UNCHANGED <<dirs, files, log, ncalls>>

PagePathTemplateRender ==
    \E data \in PagePathDataSet, template \in PathTemplates :
        /\ call = NoCall
        /\ call' = [op |-> "page_path_render", data |-> data, template |-> template]
        /\ PathReturns(PagePathRender(data, template))
        /\ UNCHANGED <<dirs, files, log, ncalls>>

NextPath == PostPathDataFrom \/ PostPathTemplateRender \/ PagePathTemplateRender

SpecPath == InitPath /\ [][NextPath]_vars

\* -------------------------------------------- breadcrumbs as a pure function

NameParts == {"", "a", InvalidUtf8}

RECURSIVE SeqsUpTo(_, _)
\* The sequences over S of length 1..n.
SeqsUpTo(S, n) ==
    IF n = 0 THEN {}
    ELSE LET shorter == SeqsUpTo(S, n - 1)
         IN {<<x>> : x \in S} \cup shorter \cup {Append(s, x) : s \in shorter, x \in S}

Names == {n \in SeqsUpTo(NameParts, MaxParts) : IsNormal(n)}

Srv == <<"srv">>
CapsuleBase == <<RootDir, Srv>>

\* Directory names: plain, dotted with a byte that is not UTF-8, hidden.
DirNames == {<<"a">>, <<"a", InvalidUtf8>>, <<"", "a">>}

RECURSIVE DirChains(_)
\* The chains of at most n directories.
DirChains(n) ==
    IF n = 0 THEN {<<>>}
    ELSE LET shorter == DirChains(n - 1)
         IN shorter \cup {Append(s, d) : s \in shorter, d \in DirNames}

\* One file, some directories deep below the capsule base, and nothing else.
InitBreadcrumb ==
    /\ \E ds \in DirChains(MaxDepth - 1), name \in Names :
          /\ dirs = Prefixes(CapsuleBase \o ds)
          /\ files = (CapsuleBase \o ds \o <<name>>) :> <<>>
    /\ call = NoCall
    /\ result = Ok(<<>>)
    /\ tera = EmptyEngine
    /\ context = EmptyContext
    /\ log = <<>>
    /\ cause = <<>>
    /\ ncalls = 0

\* The paths a caller may hand in: what exists, the same spelled with a
\* trailing "..", a path spelled with a ".", and a path that does not exist.
FileInputs ==
    DOMAIN files \cup dirs \cup {Append(p, ParentDir) : p \in DOMAIN files}
                 \cup {<<RootDir, Gone>>}

BaseInputs ==
    dirs \cup {Append(p, ParentDir) : p \in dirs}
         \cup {<<RootDir, Gone>>, <<RootDir, CurDir, Srv>>}

\* A pure function: applied once to the paths drawn, its value kept in result.
CreateBreadcrumb ==
    \E file_path \in FileInputs, base_path \in BaseInputs :
        /\ call = NoCall
        /\ call' = [op |-> "create_breadcrumb", file_path |-> file_path,
                    base_path |-> base_path]
        /\ result' = Ok(create_breadcrumb(file_path, base_path, dirs, files))
        /\ UNCHANGED <<dirs, files, tera, context, log, cause, ncalls>>

PagePathParamsFrom ==
    \E file_path \in FileInputs, base_path \in BaseInputs :
        /\ call = NoCall
        /\ call' = [op |-> "page_path_from", file_path |-> file_path,
                    base_path |-> base_path]
        /\ result' = Ok(PagePathFrom(file_path, base_path, <<"slug">>, dirs, files))
        /\ UNCHANGED <<dirs, files, tera, context, log, cause, ncalls>>

NextBreadcrumb == CreateBreadcrumb \/ PagePathParamsFrom

SpecBreadcrumb == InitBreadcrumb /\ [][NextBreadcrumb]_vars

\* What the last create_breadcrumb call's paths canonicalize to.
CanonBase == Canonicalize(call.base_path, dirs, files)
CanonFile == Canonicalize(call.file_path, dirs, files)

IsDescendant(file, base) ==
    Len(file) > Len(base) /\ SubSeq(file, 1, Len(base)) = base

\* Path::extension is Some: the name has a dot that is not its first character.
HasExtension(name) == Len(name) > 1 /\ ~(Len(name) = 2 /\ name[1] = "")

BreadcrumbCase ==
    /\ call.op = "create_breadcrumb"
    /\ CanonBase # None
    /\ CanonFile # None
    /\ IsDescendant(Unwrap(CanonFile), Unwrap(CanonBase))

\* C3: for a file path and a base path that both canonicalize, the file a
\* descendant of the base, create_breadcrumb returns the named segments of the
\* file below the base, in path order, the extension removed from the last
\* segment only, and no segment is the empty string.
C3_BreadcrumbOfDescendant ==
    BreadcrumbCase =>
        LET file == Unwrap(CanonFile)
            rel == SubSeq(file, Len(Unwrap(CanonBase)) + 1, Len(file))
            b == result.value
            n == Len(rel)
            last == ToStringLossy(rel[n])
        IN /\ Len(b) = n
           /\ \A i \in 1..(n - 1) : b[i] = ToStringLossy(rel[i])
           /\ \A i \in 1..n : b[i] # <<"">>
           /\ IF HasExtension(last)
              THEN \E ext \in Range(last) : last = Append(b[n], ext)
              ELSE b[n] = last

\* C3's case: a file two segments below the base, under a directory with a
\* dot in its name, the file with a two-part extension.
C3_Witness ==
    /\ BreadcrumbCase
    /\ LET file == Unwrap(CanonFile)
           rel == SubSeq(file, Len(Unwrap(CanonBase)) + 1, Len(file))
       IN /\ Len(rel) = 2
          /\ Len(rel[1]) = 2
          /\ rel[2] = <<"a", "a", InvalidUtf8>>
          /\ result.value = <<rel[1], <<"a", "a">>>>

\* C4: whenever canonicalization fails for the file path or for the base
\* path, create_breadcrumb returns the empty breadcrumb.
C4_EmptyBreadcrumbOnFailure ==
    (call.op = "create_breadcrumb" /\ (CanonBase = None \/ CanonFile = None))
        => result.value = <<>>

\* ------------------------------------------------------ path-template claims

\* The number a string of decimal digits writes; -1 when it is no such string.
RECURSIVE Value(_)
Value(str) ==
    IF str = <<>> THEN 0
    ELSE LET d == {k \in 0..9 : Digit(k) = str[Len(str)]}
             rest == Value(SubSeq(str, 1, Len(str) - 1))
         IN IF d = {} \/ rest < 0 THEN -1 ELSE 10 * rest + (CHOOSE k \in d : TRUE)

PostPathCase == call.op = "post_path_from"

\* C8 as stated: year, month and day are all empty when published is absent,
\* and are non-empty strings of exactly 4, 2 and 2 characters when it is
\* present; slug is copied unchanged.
C8_FixedWidthDate ==
    PostPathCase =>
        LET d == result.value IN
        /\ d.slug = call.params.slug
        /\ IF call.params.published = None
           THEN d.year = <<>> /\ d.month = <<>> /\ d.day = <<>>
           ELSE Len(d.year) = 4 /\ Len(d.month) = 2 /\ Len(d.day) = 2

\* C8 as amended: as above, but the year is at least 4 characters, exactly 4
\* for the years 0..9999, and for those the three strings are the zero-padded
\* decimal year, month and day.
C8_PaddedDate ==
    PostPathCase =>
        LET d == result.value
            p == call.params.published
        IN
        /\ d.slug = call.params.slug
        /\ IF p = None
           THEN d.year = <<>> /\ d.month = <<>> /\ d.day = <<>>
           ELSE /\ Len(d.year) >= 4 /\ Len(d.month) = 2 /\ Len(d.day) = 2
                /\ Value(d.month) = Unwrap(p).month
                /\ Value(d.day) = Unwrap(p).day
                /\ Unwrap(p).year \in 0..9999 =>
                      Len(d.year) = 4 /\ Value(d.year) = Unwrap(p).year

\* C8's cases: a date whose year, month and day all need padding, and no date.
C8_Witness ==
    /\ PostPathCase
    /\ call.params.published # None
    /\ result.value = [year |-> <<"0", "0", "0", "7">>, month |-> <<"0", "9">>,
                       day |-> <<"0", "1">>, slug |-> <<"hello">>]

\* C7: a path template that fails is reported with the error kind of its own
\* parameter shape, with the template text and a reason: the post shape with
\* InvalidPostPath, the page shape with InvalidPagePath.
C7_OwnErrorKind ==
    /\ (call.op = "post_path_render" /\ ~result.ok) =>
          /\ result.kind = "InvalidPostPath"
          /\ result.template = call.template.id
          /\ result.reason # <<>>
    /\ (call.op = "page_path_render" /\ ~result.ok) =>
          /\ result.kind = "InvalidPagePath"
          /\ result.template = call.template.id
          /\ result.reason # <<>>

\* ------------------------------------------------------- render-page claims

PageCase == call.op = "render_page"

PageContextKeys == {"entry", "values", "breadcrumb", "feed"}

Position(steps, step) == CHOOSE i \in 1..Len(steps) : steps[i] = step

\* C1: when render_page returns Ok, the destination file holds the render of
\* the layout named by entry.layout ("base" when absent) with a context whose
\* content is the first pass: the render of the entry body, registered as
\* "page", with the context {entry, values, breadcrumb, feed} of this call;
\* the second pass starts after the first.
C1_TwoPassLayout ==
    (PageCase /\ result.ok) =>
        LET entry == call.entry
            layout == IF entry.layout = None THEN <<"base">> ELSE Unwrap(entry.layout)
            first_context == [k \in PageContextKeys |-> context[k]]
            first == Render(tera, PageName, first_context)
        IN /\ DOMAIN context = PageContextKeys \cup {"content"}
           /\ tera[PageName] = entry.body
           /\ context["entry"] = <<entry.url, entry.title>>
           /\ context["values"] = entry.values
           /\ context["feed"] = <<call.pages_data.feed_data.title>>
           /\ first.ok
           /\ context["content"] = first.out
           /\ call.output \in DOMAIN files
           /\ layout \in DOMAIN tera
           /\ files[call.output] = Render(tera, layout, context).out
           /\ Position(log, "render") < Position(log, "render_to")

\* C1's case: a second render of a page, through the list layout, onto a file
\* an earlier call wrote.
C1_Witness ==
    /\ PageCase
    /\ result.ok
    /\ ncalls = 2
    /\ call.entry.layout = Some(<<"list">>)
    /\ files[call.output][2] = "list.tmpl"
    /\ \E i \in 1..Len(files[call.output]) :
          files[call.output][i] = "{{ breadcrumb }} {{ values }}"

\* A template file named page, whatever follows its first dot.
NamedPageAnyExtension(file) ==
    FileName(file.path) # None /\ Unwrap(FileName(file.path))[1] = "page"

\* A template file named page or page.<ext>: page is what precedes its last dot.
NamedPageOneExtension(file) ==
    /\ FileName(file.path) # None
    /\ LET name == Unwrap(FileName(file.path))
       IN name = <<"page">> \/ (Len(name) = 2 /\ name[1] = "page")

FailedReserved ==
    /\ ~result.ok
    /\ result.kind = "InvalidPageTemplate"
    /\ result.path = call.output
    /\ result.reason = ReservedReason

\* C2 as stated: a template set with a file named page, with any extension
\* (none, one, or several as in page.tar.gz), fails with the reserved-name
\* error, whatever else is in the set and in whatever order.
C2_AnyExtensionRejected ==
    (PageCase /\ \E i \in 1..Len(call.templates) : NamedPageAnyExtension(call.templates[i]))
        => FailedReserved

\* C2 as amended: a template set with a file named page or page.<ext>, one
\* extension at most, fails with the reserved-name error, whatever else is in
\* the set and in whatever order, before anything is loaded or written.
C2_StemPageRejected ==
    (PageCase /\ \E i \in 1..Len(call.templates) : NamedPageOneExtension(call.templates[i]))
        => (FailedReserved /\ tera = EmptyEngine /\ files = <<>>)

\* C2's case: the page file is the second of the set, after a good layout.
C2_Witness ==
    /\ PageCase
    /\ call.templates = <<BaseTmpl, PageTera>>
    /\ FailedReserved

\* ----------------------------------------------------------- render claims

Renderers == {"render_post", "render_page", "render_index", "render_feed"}

\* C5: in each of the four renderers the parent directory of the output path
\* is created before the output file is, so the directory exists whenever the
\* file's creation is attempted.
C5_ParentCreatedFirst ==
    (call.op \in Renderers /\ "File::create" \in Range(log))
        => /\ Parent(call.output) # None
           /\ Unwrap(Parent(call.output)) \in dirs

Contains(str, part) ==
    \E k \in 0..(Len(str) - Len(part)) : SubSeq(str, k + 1, k + Len(part)) = part

\* C6: when a user template fails to load or render in render_post,
\* render_page or render_index, the reason of the returned error holds the
\* message of every level of the engine error's cause chain, in order, joined
\* by " - ".
C6_FullCauseChain ==
    (call.op \in {"render_post", "render_page", "render_index"} /\ ~result.ok
        /\ cause # <<>>)
        => Contains(result.reason, Join(cause, <<" - ">>))

\* C9: a render call that returns an error has not created, truncated or
\* written its destination file: the files are as they were before the call.
C9_FailureLeavesFilesUntouched ==
    [][(call'.op \in Renderers /\ ~result'.ok) => files' = files]_vars

RenderOps == Renderers \cup {"post_path_render", "page_path_render"}

\* The name render_page registers a template file under.
RegisteredAs(file) ==
    LET name == create_named_template(file.path)
    IN IF name = None
       THEN Join([i \in 1..Len(file.path) |-> Dotted(file.path[i])], <<"/">>)
       ELSE Unwrap(name)

\* The templates and the context keys the last call itself registers.
OwnTemplates ==
    CASE call.op = "render_post" -> {<<PostName, call.template.source>>}
      [] call.op = "render_index" -> {<<IndexName, call.template.source>>}
      [] call.op = "render_feed" -> {<<FeedName, Some(call.template)>>}
      [] call.op = "render_page" ->
            {<<RegisteredAs(f), f.source>> : f \in Range(call.templates)}
            \cup {<<PageName, Some(call.entry.body)>>}
      [] OTHER -> {<<PathName, Some(call.template)>>}

OwnKeys ==
    CASE call.op = "render_post" -> {"entry", "feed"}
      [] call.op = "render_index" -> {"feed"}
      [] call.op = "render_feed" -> {"feed"}
      [] call.op = "render_page" -> PageContextKeys \cup {"content"}
      [] call.op = "post_path_render" -> {"year", "month", "day", "slug"}
      [] OTHER -> {"breadcrumb", "slug"}

\* C10: the engine and the context of a render call hold what that call
\* itself registered and nothing else: every template it can resolve is one of
\* its own, every context key is one of its own, and a call that returns Ok
\* has them all.
C10_FreshEngineAndContext ==
    call.op \in RenderOps =>
        /\ \A name \in DOMAIN tera : <<name, Some(tera[name])>> \in OwnTemplates
        /\ DOMAIN context \subseteq OwnKeys
        /\ result.ok => /\ DOMAIN tera = {t[1] : t \in OwnTemplates}
                        /\ DOMAIN context = OwnKeys

\* C10's case: a post rendered after a page was: the page call's templates
\* ("base", "list", "page") are gone from the engine.
C10_Witness ==
    /\ call.op = "render_post"
    /\ result.ok
    /\ ncalls = 2
    /\ \E output \in PageOutputs : output \in DOMAIN files /\ Len(files[output]) > 4
    /\ DOMAIN tera = {PostName}

====
